---- MODULE Spec2Model ----
(***************************************************************************)
(* Email-service admin console: the session store (AuthProvider), the      *)
(* login screen, the setup screen and the dashboard, as a state machine of *)
(* the browser's event loop.  Every step is one event handler or one       *)
(* continuation of an async handler after an awaited backend call settles. *)
(*                                                                         *)
(* Spec          bootstrap, login and setup; the dashboard is a screen     *)
(*               that is never mounted, so its state stays initial         *)
(* ScheduleSpec  the time fields of Setup and the schedule payload         *)
(* FormSpec      the form of Setup: field edits around tests and saves     *)
(* DashSpec      one mount of the dashboard, up to and after its teardown  *)
(* AppSpec       the three screens together, after the bootstrap           *)
(***************************************************************************)
EXTENDS Integers, FiniteSets, Sequences, TLC

(* ---------------------------------------------------------------- bounds *)
MaxToken == 2
MaxUser == 2
MaxInFlight == 1
MaxTimers == 1
MaxReads == 3
MaxCert == 2

(* ---------------------------------------------------------------- values *)
NoToken == 0
NoUser == 0
Tokens == 1..MaxToken
Users == 1..MaxUser

\* localStorage values for the key 'user': a missing key, the text written by
\* JSON.stringify, or some other text that JSON.parse rejects.
Absent == [kind |-> "absent", val |-> 0]
Unparseable == [kind |-> "raw", val |-> 0]
JSONstringify(u) == [kind |-> "json", val |-> u]
JSONparseThrows(s) == s.kind # "json"
JSONparse(s) == s.val

Routes == {"login", "setup", "dashboard"}

BackendMsg == "backend message"
Msgs == {"", BackendMsg}
NoMessage == [type |-> "none", text |-> ""]
Notice(type, text) == [type |-> type, text |-> text]

\* a || b on strings: the first operand unless it is empty
OrElse(a, b) == IF a # "" THEN a ELSE b

(* ------------------------------------------------------ backend responses *)
\* kind "ok": 2xx with success/exists true; "fail": 2xx whose body reports
\* failure; "throw": the axios promise rejects (network error, non-2xx).  msg is
\* the body's message field, "" when the body has none.
VerifyResponses == {[kind |-> k] : k \in {"ok", "fail", "throw"}}
AuthResponses ==
    {[kind |-> "ok", msg |-> "", token |-> t, user |-> u] : t \in Tokens, u \in Users}
    \cup {[kind |-> k, msg |-> m, token |-> NoToken, user |-> NoUser] :
            k \in {"fail", "throw"}, m \in Msgs}
ConfigResponses ==
    {[kind |-> "ok", exists |-> e, msg |-> ""] : e \in BOOLEAN}
    \cup {[kind |-> "throw", exists |-> FALSE, msg |-> m] : m \in Msgs}
TestResponses ==
    {[kind |-> "ok", msg |-> ""]}
    \cup {[kind |-> k, msg |-> m] : k \in {"fail", "throw"}, m \in Msgs}
WriteResponses ==
    {[kind |-> "ok", msg |-> ""]}
    \cup {[kind |-> k, msg |-> m] : k \in {"fail", "throw"}, m \in Msgs}

(* ------------------------------------------------ in-flight continuations *)
\* A task is an async handler suspended at an await: h the handler, pc the call
\* it waits for, live whether the component that started it is still mounted
\* (a state setter of an unmounted component does nothing).
Task(h, pc, live) == [h |-> h, pc |-> pc, live |-> live]
TaskKinds ==
    {Task("login", p, l) : p \in {"auth", "config"}, l \in BOOLEAN}
    \cup {Task("test", "call", l) : l \in BOOLEAN}
    \cup {Task("save", p, l) : p \in {"db", "email"}, l \in BOOLEAN}
NoTasks == [k \in TaskKinds |-> 0]
Owner(h) == IF h = "login" THEN "login" ELSE "setup"

RECURSIVE SumOver(_, _)
SumOver(S, T) ==
    IF S = {} THEN 0
    ELSE LET k == CHOOSE x \in S : TRUE IN T[k] + SumOver(S \ {k}, T)
InFlight(T, h) == SumOver({k \in TaskKinds : k.h = h}, T)
Spawn(T, t) == [T EXCEPT ![t] = @ + 1]
Finish(T, t) == [T EXCEPT ![t] = @ - 1]
Advance(T, t, pc) == Spawn(Finish(T, t), [t EXCEPT !.pc = pc])
\* the component of screen s is unmounted: its suspended handlers go on, orphaned
Unmount(T, s) ==
    [k \in TaskKinds |->
        IF Owner(k.h) # s THEN T[k]
        ELSE IF k.live THEN 0
        ELSE T[k] + T[[k EXCEPT !.live = TRUE]]]

VARIABLES
    lsToken, lsUser,                \* localStorage 'token' and 'user'
    token, user, authLoading,       \* AuthProvider state
    bootPc, savedToken, savedUser,  \* verifyStoredToken: position and locals
    verifyCalls,                    \* GET /authenticate calls issued by this process
    route,                          \* current location
    loginError, loginLoading,       \* Login state
    connectionTested, testLoading, saveLoading, message,   \* Setup state
    tasks,                          \* suspended async handlers
    navTimers,                      \* pending setTimeout(navigate('/dashboard'))
    startTime, endTime,             \* Setup state: the two schedule time fields
    schedulePayload,                \* start_time / end_time of the last POST /save-email-config
    dbConfig,                       \* Setup state: server, port, dbUser, dbPassword, database
    testBody, saveBody,             \* body of the last test-connection / save-database request
    dashMounted,                    \* the Dashboard's mount effect has run
    timersSet, timersCleared,       \* setInterval / clearInterval calls of this process
    dashLoading, actionLoading, dashMessage,                \* Dashboard state
    dashboardData, certificateStatus, certificates, certificatePinStatus,
    showConfigModal, configData,
    showPinModal, selectedCertificate, pinInput, pinLoading, pinModalError,
    dashTasks,                      \* suspended async handlers of the Dashboard
    reads                           \* read requests issued by the Dashboard so far

storageVars == <<lsToken, lsUser>>
authVars == <<token, user, authLoading, bootPc, savedToken, savedUser, verifyCalls>>
loginVars == <<loginError, loginLoading>>
setupVars == <<connectionTested, testLoading, saveLoading, message>>
formVars == <<dbConfig, testBody, saveBody>>
scheduleVars == <<startTime, endTime, schedulePayload, formVars>>
snapshotVars == <<dashboardData, certificateStatus, certificates, certificatePinStatus>>
pinVars == <<showPinModal, selectedCertificate, pinInput, pinLoading, pinModalError>>
configVars == <<showConfigModal, configData>>
timerVars == <<dashMounted, timersSet, timersCleared>>
dashVars == <<timerVars, dashLoading, actionLoading, dashMessage, snapshotVars, configVars,
              pinVars, dashTasks, reads>>
sessionVars == <<storageVars, authVars, route, loginVars, setupVars, tasks, navTimers>>
viewVars == <<scheduleVars, dashVars>>
vars == <<lsToken, lsUser, token, user, authLoading, bootPc, savedToken, savedUser,
          dbConfig, testBody, saveBody,
          verifyCalls, route, loginError, loginLoading, connectionTested,
          testLoading, saveLoading, message, tasks, navTimers, viewVars>>

(* ------------------------------------------------------------- rendering *)
\* isAuthenticated: !!token
IsAuthenticated(tok) == tok # NoToken
\* what the router renders at location r: a protected screen only when
\* authenticated, otherwise a redirect to the login screen
ProtectedRoute(r, tok) ==
    IF r = "login" \/ IsAuthenticated(tok) THEN r ELSE "redirect"
\* AuthProvider renders only the loading placeholder while loading is true,
\* and its children (the routes) afterwards
Screen_NoGate(loading, r, tok) == ProtectedRoute(r, tok)
Screen(loading, r, tok) == IF loading THEN "loading" ELSE ProtectedRoute(r, tok)

SetLogin(err, ld) == loginError' = err /\ loginLoading' = ld
ResetLogin == SetLogin("", FALSE)
SetSetup(ct, tl, sl, msg) ==
    /\ connectionTested' = ct
    /\ testLoading' = tl
    /\ saveLoading' = sl
    /\ message' = msg
ResetSetup == SetSetup(FALSE, FALSE, FALSE, NoMessage)

(* ------------------------------------------------------ Dashboard: values *)
\* a snapshot is named by the sequence number of the read that returned it
NoData == 0
NoDashboard == [seq |-> NoData, running |-> FALSE]
NoCertificate == 0
Certificates == 1..MaxCert
NoPin == ""
PinText == "1234"
NoError == ""
\* the four reads of one batch, in the order of the Promise.all array
BatchReads == {"dashboard", "certificate-status", "certificates", "certificate-pin-status"}
\* one batch settled: every read resolved (failed = "none"), or the read that rejected first
BatchResponses ==
    [failed : {"none"}, running : BOOLEAN, msg : {""}]
        \cup [failed : BatchReads, running : {FALSE}, msg : Msgs]
PromiseAll_FirstOnly(r) == r.failed # "dashboard"
PromiseAll(r) == r.failed = "none"

\* the refresh argument of getCertificatePinStatus in handler h
ForcedRefresh_Never(h) == FALSE
ForcedRefresh(h) == h \in {"pinSave", "pinRefresh"}
DashTask(h, pc, seq, refresh, action, cert, live) ==
    [h |-> h, pc |-> pc, seq |-> seq, refresh |-> refresh, action |-> action,
     cert |-> cert, live |-> live]
\* every handler loses its component when the Dashboard unmounts
Orphaned(T) == {[t EXCEPT !.live = FALSE] : t \in T}
Batches(T) == {t \in T : t.pc = "batch"}
\* tasks that will issue one more read when their awaited write succeeds
WillRead(T) == {t \in T : t.pc \in {"control", "store"}}
CanIssue == reads + Cardinality(WillRead(dashTasks)) < MaxReads
\* no write of handler h is unanswered, not even one of an earlier mount
NoneUnanswered(h) == \A t \in dashTasks : ~(t.h = h /\ t.seq = 0)

DashIdle ==
    /\ dashMounted = FALSE
    /\ timersSet = 0
    /\ timersCleared = 0
    /\ dashLoading = TRUE
    /\ actionLoading = FALSE
    /\ dashMessage = NoMessage
    /\ dashboardData = NoDashboard
    /\ certificateStatus = NoData
    /\ certificates = NoData
    /\ certificatePinStatus = NoData
    /\ showConfigModal = FALSE
    /\ configData = NoData
    /\ showPinModal = FALSE
    /\ selectedCertificate = NoCertificate
    /\ pinInput = NoPin
    /\ pinLoading = FALSE
    /\ pinModalError = NoError
    /\ dashTasks = {}
    /\ reads = 0

\* the Dashboard renders only a placeholder while its loading flag is set
DashShown ==
    /\ Screen(authLoading, route, token) = "dashboard"
    /\ dashMounted
    /\ ~dashLoading

(* --------------------------------------------------- Dashboard: PIN values *)
BadPin == "bad pin"
Errs == {"", BadPin}
\* one per-entry result of POST /certificate-pin; an empty array has none
Entries == [present : {TRUE}, success : BOOLEAN, message : Msgs, error : Errs]
NoEntry == [present |-> FALSE, success |-> FALSE, message |-> "", error |-> ""]
\* the response as a bare object, as an array (of which the code reads the
\* first element), or a rejection carrying the body's message and error
StorePinResponses ==
    [shape : {"object"}, entry : Entries]
        \cup [shape : {"array"}, entry : Entries \cup {NoEntry}]
        \cup [shape : {"throw"}, entry : {e \in Entries : ~e.success}]
\* a single read: resolved, or rejected with the body's message and error
ReadResponses ==
    [kind : {"ok"}, msg : {""}, error : {""}]
        \cup [kind : {"throw"}, msg : Msgs, error : Errs]
FailedToSavePin == "Failed to save PIN"
PinResult(result, text) == [result |-> result, text |-> text]
\* what handleSavePin makes of the response
PinOutcome(r) ==
    IF r.shape = "array"
    THEN IF r.entry.present /\ ~r.entry.success
         THEN PinResult("failure", OrElse(r.entry.error, OrElse(r.entry.message, FailedToSavePin)))
         ELSE IF r.entry.present /\ r.entry.success
              THEN PinResult("success", "PIN saved successfully")
              ELSE PinResult("none", "")
    ELSE IF r.shape = "object"
         THEN IF r.entry.success
              THEN PinResult("success", "PIN saved successfully")
              ELSE PinResult("failure", OrElse(r.entry.message, FailedToSavePin))
         ELSE PinResult("failure", OrElse(r.entry.message, OrElse(r.entry.error, FailedToSavePin)))

(* ------------------------------------------------- Setup: schedule times *)
\* a string is the sequence of its characters
DigitChar == <<"0", "1", "2", "3", "4", "5", "6", "7", "8", "9">>
Pad2(n) == <<DigitChar[(n \div 10) + 1], DigitChar[(n % 10) + 1]>>
\* the value of an <input type="time">: HH:MM, or empty when cleared
HHMM(h, m) == Pad2(h) \o <<":">> \o Pad2(m)
SampleHours == {0, 6, 22}
SampleMinutes == {0, 59}
TimeValues == {HHMM(h, m) : h \in SampleHours, m \in SampleMinutes}
TimeInputs == TimeValues \cup {<<>>}
NoPayload == [sent |-> FALSE, start_time |-> <<>>, end_time |-> <<>>]

\* String.prototype.replace with a string pattern: the first occurrence only
RECURSIVE ReplaceFirst(_, _, _)
ReplaceFirst(s, pat, rep) ==
    IF s = <<>> THEN <<>>
    ELSE IF Head(s) = pat THEN rep \o Tail(s)
    ELSE <<Head(s)>> \o ReplaceFirst(Tail(s), pat, rep)

\* the five database fields; each holds its initial value or an edited one
DbFields == {"server", "port", "dbUser", "dbPassword", "database"}
DbValues == {"initial", "edited"}
NoBody == [f \in DbFields |-> "none"]

formatTime_Unchanged(time) == time
formatTime(time) == ReplaceFirst(time, ":", <<>>)

ScheduleInit ==
    /\ startTime = HHMM(6, 0)
    /\ endTime = HHMM(22, 0)
    /\ schedulePayload = NoPayload
    /\ dbConfig = [f \in DbFields |-> "initial"]
    /\ testBody = NoBody
    /\ saveBody = NoBody

Init ==
    /\ \/ lsToken = NoToken /\ lsUser = Absent
       \/ lsToken \in Tokens /\ lsUser \in {JSONstringify(u) : u \in Users} \cup {Unparseable}
    /\ token = NoToken
    /\ user = NoUser
    /\ authLoading = TRUE
    /\ bootPc = "start"
    /\ savedToken = NoToken
    /\ savedUser = Absent
    /\ verifyCalls = 0
    /\ route \in Routes
    /\ loginError = ""
    /\ loginLoading = FALSE
    /\ connectionTested = FALSE
    /\ testLoading = FALSE
    /\ saveLoading = FALSE
    /\ message = NoMessage
    /\ tasks = NoTasks
    /\ navTimers = 0
    /\ ScheduleInit
    /\ DashIdle

(* ------------------------------------------------------------ navigation *)
\* navigate(target) from the current location: the component of the current
\* route is unmounted unless the location stays the same
Leaves(target) == target # route
TasksAfterNav(target, T) == IF Leaves(target) THEN Unmount(T, route) ELSE T

ClearedAfterCleanup_Leak(n) == n
ClearedAfterCleanup(n) == n + 1
\* the Dashboard unmounts: the effect's cleanup runs, the component state is gone
DashTeardown ==
    /\ dashMounted' = FALSE
    /\ timersCleared' = ClearedAfterCleanup(timersCleared)
    /\ dashTasks' = Orphaned(dashTasks)
    /\ dashLoading' = TRUE
    /\ actionLoading' = FALSE
    /\ dashMessage' = NoMessage
    /\ dashboardData' = NoDashboard
    /\ certificateStatus' = NoData
    /\ certificates' = NoData
    /\ certificatePinStatus' = NoData
    /\ showConfigModal' = FALSE
    /\ configData' = NoData
    /\ showPinModal' = FALSE
    /\ selectedCertificate' = NoCertificate
    /\ pinInput' = NoPin
    /\ pinLoading' = FALSE
    /\ pinModalError' = NoError
    /\ UNCHANGED <<timersSet, reads>>

\* navigate(target) while the Dashboard is mounted
DashAfterNav(target) ==
    IF dashMounted /\ target # "dashboard" THEN DashTeardown ELSE UNCHANGED dashVars


(* ------------------------------------------------- AuthProvider: bootstrap *)
\* useEffect(..., []): the effect runs once, after the first render
BootEffectDue_EveryRender == bootPc \in {"start", "done"}
BootEffectDue == bootPc = "start"

\* if (savedToken && savedUser)
HasStoredPair_Always(t, u) == TRUE
HasStoredPair(t, u) == t # NoToken /\ u # Absent

VerifyStoredToken ==
    /\ BootEffectDue
    /\ savedToken' = lsToken
    /\ savedUser' = lsUser
    /\ IF HasStoredPair(lsToken, lsUser)
       THEN /\ bootPc' = "verifying"
            /\ verifyCalls' = verifyCalls + 1
            /\ UNCHANGED <<authLoading, route>>
       ELSE /\ bootPc' = "done"
            /\ authLoading' = FALSE
            /\ UNCHANGED <<verifyCalls, route>>
    /\ UNCHANGED <<storageVars, token, user, loginVars, setupVars, tasks, navTimers>>
    /\ UNCHANGED viewVars

\* the continuation after `await apiService.verifyToken()`
VerifyTokenDone(r) ==
    /\ bootPc = "verifying"
    /\ IF r.kind = "ok"
       THEN /\ token' = savedToken
            /\ IF JSONparseThrows(savedUser)
               THEN /\ user' = user
                    /\ lsToken' = NoToken
                    /\ lsUser' = Absent
               ELSE /\ user' = JSONparse(savedUser)
                    /\ UNCHANGED storageVars
       ELSE /\ lsToken' = NoToken
            /\ lsUser' = Absent
            /\ UNCHANGED <<token, user>>
    /\ authLoading' = FALSE
    /\ bootPc' = "done"
    /\ UNCHANGED <<savedToken, savedUser, verifyCalls, route, loginVars, setupVars, tasks,
                   navTimers>>
    /\ UNCHANGED viewVars

\* a page load: a new process over the same localStorage
Restart(url) ==
    /\ route' = url
    /\ token' = NoToken
    /\ user' = NoUser
    /\ authLoading' = TRUE
    /\ bootPc' = "start"
    /\ savedToken' = NoToken
    /\ savedUser' = Absent
    /\ verifyCalls' = 0
    /\ ResetLogin
    /\ ResetSetup
    /\ tasks' = NoTasks
    /\ navTimers' = 0
    /\ UNCHANGED storageVars
    /\ UNCHANGED viewVars

\* the router follows the redirect of a protected route to the login screen
RedirectToLogin ==
    /\ Screen(authLoading, route, token) = "redirect"
    /\ route' = "login"
    /\ UNCHANGED <<storageVars, authVars, loginVars, setupVars, tasks, navTimers>>
    /\ UNCHANGED viewVars

(* --------------------------------------------------- AuthProvider: logout *)
LogoutStoredToken_Kept(t) == t
LogoutStoredToken(t) == NoToken

Logout ==
    /\ Screen(authLoading, route, token) \in {"setup", "dashboard"}
    /\ user' = NoUser
    /\ token' = NoToken
    /\ lsToken' = LogoutStoredToken(lsToken)
    /\ lsUser' = Absent
    /\ route' = "login"
    /\ tasks' = TasksAfterNav("login", tasks)
    /\ ResetLogin
    /\ ResetSetup
    /\ UNCHANGED <<authLoading, bootPc, savedToken, savedUser, verifyCalls, navTimers>>
    /\ UNCHANGED viewVars

(* ------------------------------------------------------------ Login flow *)
AxiosMessage == "Network Error"
\* the error login() throws: an axios rejection carries the response body's
\* message and its own message; `throw new Error(response.message ||
\* 'Authentication failed')` carries no response
LoginThrows(r) ==
    IF r.kind = "throw"
    THEN [responseMsg |-> r.msg, message |-> AxiosMessage]
    ELSE [responseMsg |-> "", message |-> OrElse(r.msg, "Authentication failed")]
\* err.response?.data?.message || err.message || 'Login failed'
LoginErrorText(r) ==
    LET err == LoginThrows(r) IN OrElse(err.responseMsg, OrElse(err.message, "Login failed"))

LoginTarget_Swapped(exists) == IF exists THEN "setup" ELSE "dashboard"
LoginTarget(exists) == IF exists THEN "dashboard" ELSE "setup"

HandleSubmit ==
    /\ Screen(authLoading, route, token) = "login"
    /\ ~loginLoading
    /\ InFlight(tasks, "login") < MaxInFlight
    /\ SetLogin("", TRUE)
    /\ tasks' = Spawn(tasks, Task("login", "auth", TRUE))
    /\ UNCHANGED <<storageVars, authVars, route, setupVars, navTimers>>
    /\ UNCHANGED viewVars

\* the continuation after `await apiService.authenticate(...)`
LoginAuthDone(t, r) ==
    /\ t.h = "login" /\ t.pc = "auth" /\ tasks[t] > 0
    /\ IF r.kind = "ok"
       THEN /\ token' = r.token
            /\ user' = r.user
            /\ lsToken' = r.token
            /\ lsUser' = JSONstringify(r.user)
            /\ tasks' = Advance(tasks, t, "config")
            /\ UNCHANGED loginVars
       ELSE /\ tasks' = Finish(tasks, t)
            /\ IF t.live THEN SetLogin(LoginErrorText(r), FALSE) ELSE UNCHANGED loginVars
            /\ UNCHANGED <<storageVars, token, user>>
    /\ UNCHANGED <<authLoading, bootPc, savedToken, savedUser, verifyCalls, route,
                   setupVars, navTimers>>
    /\ UNCHANGED viewVars

\* the continuation after `await apiService.checkEmailConfig()`
LoginConfigDone(t, r) ==
    /\ t.h = "login" /\ t.pc = "config" /\ tasks[t] > 0
    /\ IF r.kind = "ok"
       THEN LET target == LoginTarget(r.exists) IN
            /\ route' = target
            /\ tasks' = TasksAfterNav(target, Finish(tasks, t))
            /\ DashAfterNav(target)
            /\ IF Leaves(target) THEN ResetLogin /\ ResetSetup
               ELSE /\ UNCHANGED setupVars
                    /\ IF t.live THEN SetLogin(loginError, FALSE) ELSE UNCHANGED loginVars
       ELSE /\ tasks' = Finish(tasks, t)
            /\ IF t.live THEN SetLogin(LoginErrorText(r), FALSE) ELSE UNCHANGED loginVars
            /\ UNCHANGED <<route, setupVars, dashVars>>
    /\ UNCHANGED <<storageVars, authVars, navTimers>>
    /\ UNCHANGED scheduleVars

(* ------------------------------------------------------------ Setup flow *)
\* Save Config button: disabled={!connectionTested || saveLoading}
SaveEnabled == connectionTested /\ ~saveLoading

\* handleTestConnection up to its await, the request body apart
TestClick ==
    /\ Screen(authLoading, route, token) = "setup"
    /\ ~testLoading
    /\ InFlight(tasks, "test") < MaxInFlight
    /\ SetSetup(connectionTested, TRUE, saveLoading, NoMessage)
    /\ tasks' = Spawn(tasks, Task("test", "call", TRUE))
    /\ UNCHANGED <<storageVars, authVars, route, loginVars, navTimers>>
    /\ UNCHANGED dashVars

HandleTestConnection == TestClick /\ UNCHANGED scheduleVars

\* the continuation after `await apiService.testConnection(...)`
TestConnectionDone(t, r) ==
    /\ t.h = "test" /\ tasks[t] > 0
    /\ tasks' = Finish(tasks, t)
    /\ IF ~t.live THEN UNCHANGED setupVars
       ELSE IF r.kind = "ok"
       THEN SetSetup(TRUE, FALSE, saveLoading, Notice("success", "Connection successful!"))
       ELSE IF r.kind = "fail"
       THEN SetSetup(FALSE, FALSE, saveLoading,
                     Notice("error", OrElse(r.msg, "Connection failed")))
       ELSE SetSetup(FALSE, FALSE, saveLoading,
                     Notice("error", OrElse(r.msg, "Connection test failed")))
    /\ UNCHANGED <<storageVars, authVars, route, loginVars, navTimers>>
    /\ UNCHANGED viewVars

\* handleSaveConfig up to its first await, the request body apart
SaveClick ==
    /\ Screen(authLoading, route, token) = "setup"
    /\ SaveEnabled
    /\ IF ~connectionTested
       THEN /\ SetSetup(connectionTested, testLoading, saveLoading,
                        Notice("error", "Please test the connection first"))
            /\ UNCHANGED tasks
       ELSE /\ InFlight(tasks, "save") + navTimers < MaxTimers
            /\ InFlight(tasks, "save") < MaxInFlight
            /\ SetSetup(connectionTested, testLoading, TRUE, NoMessage)
            /\ tasks' = Spawn(tasks, Task("save", "db", TRUE))
    /\ UNCHANGED <<storageVars, authVars, route, loginVars, navTimers>>
    /\ UNCHANGED dashVars

HandleSaveConfig == SaveClick /\ UNCHANGED scheduleVars

\* the catch block of handleSaveConfig, then finally
SaveFailed(t, r) ==
    IF t.live
    THEN SetSetup(connectionTested, testLoading, FALSE,
                  Notice("error", OrElse(r.msg, "Failed to save configuration")))
    ELSE UNCHANGED setupVars

\* the continuation after `await apiService.saveDatabaseConfig(...)`: the
\* returned body is not inspected, only a rejected promise reaches the catch
SaveDatabaseDone(t, r) ==
    /\ t.h = "save" /\ t.pc = "db" /\ tasks[t] > 0
    /\ IF r.kind # "throw"
       THEN /\ tasks' = Advance(tasks, t, "email")
            /\ UNCHANGED setupVars
       ELSE /\ tasks' = Finish(tasks, t)
            /\ SaveFailed(t, r)
    /\ UNCHANGED <<storageVars, authVars, route, loginVars, navTimers>>
    /\ UNCHANGED viewVars

\* the continuation after `await apiService.saveEmailConfig(...)`
SaveEmailDone(t, r) ==
    /\ t.h = "save" /\ t.pc = "email" /\ tasks[t] > 0
    /\ tasks' = Finish(tasks, t)
    /\ IF r.kind # "throw"
       THEN /\ navTimers' = navTimers + 1
            /\ IF t.live
               THEN SetSetup(connectionTested, testLoading, FALSE,
                             Notice("success", "Configuration saved successfully!"))
               ELSE UNCHANGED setupVars
       ELSE /\ SaveFailed(t, r)
            /\ UNCHANGED navTimers
    /\ UNCHANGED <<storageVars, authVars, route, loginVars>>
    /\ UNCHANGED viewVars

\* setTimeout(() => navigate('/dashboard'), 1500) fires
NavTimerFires ==
    /\ navTimers > 0
    /\ navTimers' = navTimers - 1
    /\ route' = "dashboard"
    /\ tasks' = TasksAfterNav("dashboard", tasks)
    /\ IF Leaves("dashboard") THEN ResetLogin /\ ResetSetup ELSE UNCHANGED <<loginVars, setupVars>>
    /\ UNCHANGED <<storageVars, authVars>>
    /\ UNCHANGED viewVars

(* ----------------------------------------------------- Dashboard: polling *)
\* fetchData up to its await: the four reads of one batch leave together
StartBatch(h, action) ==
    /\ reads' = reads + 1
    /\ dashTasks' = dashTasks \cup {DashTask(h, "batch", reads + 1, ForcedRefresh(h), action, NoCertificate, TRUE)}

\* fetchData after its await, in a component that is still mounted
ApplyBatch(t, r) ==
    /\ IF PromiseAll(r)
       THEN /\ dashboardData' = [seq |-> t.seq, running |-> r.running]
            /\ certificateStatus' = t.seq
            /\ certificates' = t.seq
            /\ certificatePinStatus' = t.seq
            /\ UNCHANGED dashMessage
       ELSE /\ dashMessage' = Notice("error", OrElse(r.msg, "Failed to fetch dashboard data"))
            /\ UNCHANGED snapshotVars
    /\ dashLoading' = FALSE

\* the mount effect: fetchData() and setInterval(fetchData, 10000)
DashboardMount ==
    /\ Screen(authLoading, route, token) = "dashboard"
    /\ ~dashMounted
    /\ CanIssue
    /\ dashMounted' = TRUE
    /\ timersSet' = timersSet + 1
    /\ StartBatch("fetchData", "")
    /\ UNCHANGED <<timersCleared, dashLoading, actionLoading, dashMessage, snapshotVars,
                   configVars, pinVars>>
    /\ UNCHANGED <<sessionVars, scheduleVars>>

\* a tick of the interval timer
PollTick ==
    /\ timersSet > timersCleared
    /\ CanIssue
    /\ StartBatch("fetchData", "")
    /\ UNCHANGED <<timerVars, dashLoading, actionLoading, dashMessage, snapshotVars,
                   configVars, pinVars>>
    /\ UNCHANGED <<sessionVars, scheduleVars>>

FetchDataDone(t, r) ==
    /\ t \in dashTasks
    /\ t.h = "fetchData"
    /\ dashTasks' = dashTasks \ {t}
    /\ IF t.live THEN ApplyBatch(t, r)
       ELSE UNCHANGED <<snapshotVars, dashMessage, dashLoading>>
    /\ UNCHANGED <<timerVars, actionLoading, configVars, pinVars, reads>>
    /\ UNCHANGED <<sessionVars, scheduleVars>>

(* --------------------------------------------- Dashboard: service control *)
ServiceActions == {"start", "stop"}
ServiceResponses == WriteResponses
\* the Start and Stop buttons
ControlEnabled(action) ==
    /\ ~actionLoading
    /\ IF action = "start" THEN ~dashboardData.running ELSE dashboardData.running
FailedToControl(action) ==
    IF action = "start" THEN "Failed to start service" ELSE "Failed to stop service"
\* whether handleServiceControl goes on to fetchData after the call settled
RefetchAfter(r) == r.kind = "ok"

HandleServiceControl(action) ==
    /\ DashShown
    /\ ControlEnabled(action)
    /\ CanIssue
    /\ NoneUnanswered("service")
    /\ actionLoading' = TRUE
    /\ dashMessage' = NoMessage
    /\ dashTasks' = dashTasks \cup
            {DashTask("service", "control", 0, FALSE, action, NoCertificate, TRUE)}
    /\ UNCHANGED <<timerVars, dashLoading, snapshotVars, configVars, pinVars, reads>>
    /\ UNCHANGED <<sessionVars, scheduleVars>>

\* POST /service-control settled
ServiceControlDone(t, r) ==
    /\ t \in dashTasks
    /\ t.h = "service"
    /\ t.pc = "control"
    /\ IF RefetchAfter(r)
       THEN /\ reads' = reads + 1
            /\ dashTasks' = (dashTasks \ {t}) \cup {[t EXCEPT !.pc = "batch", !.seq = reads + 1]}
            /\ dashMessage' = IF t.live THEN Notice("success", r.msg) ELSE dashMessage
            /\ UNCHANGED actionLoading
       ELSE /\ dashTasks' = dashTasks \ {t}
            /\ dashMessage' = IF t.live
                                THEN Notice("error", OrElse(r.msg, FailedToControl(t.action)))
                                ELSE dashMessage
            /\ actionLoading' = IF t.live THEN FALSE ELSE actionLoading
            /\ UNCHANGED reads
    /\ UNCHANGED <<timerVars, dashLoading, snapshotVars, configVars, pinVars>>
    /\ UNCHANGED <<sessionVars, scheduleVars>>

\* the batch awaited inside handleServiceControl settled
ServiceRefetchDone(t, r) ==
    /\ t \in dashTasks
    /\ t.h = "service"
    /\ t.pc = "batch"
    /\ dashTasks' = dashTasks \ {t}
    /\ IF t.live THEN ApplyBatch(t, r) /\ actionLoading' = FALSE
       ELSE UNCHANGED <<snapshotVars, dashMessage, dashLoading, actionLoading>>
    /\ UNCHANGED <<timerVars, configVars, pinVars, reads>>
    /\ UNCHANGED <<sessionVars, scheduleVars>>

(* ------------------------------------------------------- Dashboard: PINs *)
\* the PIN modal is rendered
PinModalOpen == DashShown /\ showPinModal /\ selectedCertificate # NoCertificate
SavePinEnabled == ~pinLoading /\ pinInput # NoPin
SetPinModal(show, cert, pin, err) ==
    /\ showPinModal' = show
    /\ selectedCertificate' = cert
    /\ pinInput' = pin
    /\ pinModalError' = err
ClosedPinModal == SetPinModal(FALSE, NoCertificate, NoPin, NoError)

\* Set PIN / Change PIN on a certificate row
HandleOpenPinModal(cert) ==
    /\ DashShown
    /\ certificates # NoData
    /\ SetPinModal(TRUE, cert, NoPin, NoError)
    /\ UNCHANGED <<timerVars, dashLoading, actionLoading, dashMessage, snapshotVars,
                   configVars, pinLoading, dashTasks, reads>>
    /\ UNCHANGED <<sessionVars, scheduleVars>>

SetPinInput(v) ==
    /\ PinModalOpen
    /\ pinInput' = v
    /\ UNCHANGED <<showPinModal, selectedCertificate, pinLoading, pinModalError>>
    /\ UNCHANGED <<timerVars, dashLoading, actionLoading, dashMessage, snapshotVars,
                   configVars, dashTasks, reads>>
    /\ UNCHANGED <<sessionVars, scheduleVars>>

\* the modal's X and Cancel buttons
ClosePinModal ==
    /\ PinModalOpen
    /\ ClosedPinModal
    /\ UNCHANGED <<timerVars, dashLoading, actionLoading, dashMessage, snapshotVars,
                   configVars, pinLoading, dashTasks, reads>>
    /\ UNCHANGED <<sessionVars, scheduleVars>>

HandleSavePin ==
    /\ PinModalOpen
    /\ SavePinEnabled
    /\ CanIssue
    /\ NoneUnanswered("pinSave")
    /\ pinLoading' = TRUE
    /\ pinModalError' = NoError
    /\ dashMessage' = NoMessage
    /\ dashTasks' = dashTasks \cup
            {DashTask("pinSave", "store", 0, FALSE, "", selectedCertificate, TRUE)}
    /\ UNCHANGED <<showPinModal, selectedCertificate, pinInput>>
    /\ UNCHANGED <<timerVars, dashLoading, actionLoading, snapshotVars, configVars, reads>>
    /\ UNCHANGED <<sessionVars, scheduleVars>>

\* POST /certificate-pin settled
StorePinDone(t, r) ==
    /\ t \in dashTasks
    /\ t.h = "pinSave"
    /\ t.pc = "store"
    /\ IF PinOutcome(r).result = "success"
       THEN /\ reads' = reads + 1
            /\ dashTasks' = (dashTasks \ {t}) \cup
                    {[t EXCEPT !.pc = "get", !.seq = reads + 1, !.refresh = ForcedRefresh(t.h)]}
            /\ IF t.live
               THEN /\ dashMessage' = Notice("success", PinOutcome(r).text)
                    /\ ClosedPinModal
               ELSE UNCHANGED <<dashMessage, showPinModal, selectedCertificate, pinInput,
                                pinModalError>>
            /\ UNCHANGED pinLoading
       ELSE /\ dashTasks' = dashTasks \ {t}
            /\ IF t.live
               THEN /\ pinModalError' = IF PinOutcome(r).result = "failure"
                                         THEN PinOutcome(r).text ELSE pinModalError
                    /\ pinLoading' = FALSE
               ELSE UNCHANGED <<pinModalError, pinLoading>>
            /\ UNCHANGED <<dashMessage, showPinModal, selectedCertificate, pinInput, reads>>
    /\ UNCHANGED <<timerVars, dashLoading, actionLoading, snapshotVars, configVars>>
    /\ UNCHANGED <<sessionVars, scheduleVars>>

\* the forced PIN-status read after a successful save settled
SavePinRefreshDone(t, r) ==
    /\ t \in dashTasks
    /\ t.h = "pinSave"
    /\ t.pc = "get"
    /\ dashTasks' = dashTasks \ {t}
    /\ IF t.live
       THEN /\ IF r.kind = "ok"
               THEN certificatePinStatus' = t.seq /\ UNCHANGED pinModalError
               ELSE /\ pinModalError' = OrElse(r.msg, OrElse(r.error, FailedToSavePin))
                    /\ UNCHANGED certificatePinStatus
            /\ pinLoading' = FALSE
       ELSE UNCHANGED <<certificatePinStatus, pinModalError, pinLoading>>
    /\ UNCHANGED <<dashboardData, certificateStatus, certificates>>
    /\ UNCHANGED <<showPinModal, selectedCertificate, pinInput>>
    /\ UNCHANGED <<timerVars, dashLoading, actionLoading, dashMessage, configVars, reads>>
    /\ UNCHANGED <<sessionVars, scheduleVars>>

\* the Refresh PIN Status button
HandleRefreshPinStatus ==
    /\ DashShown
    /\ ~pinLoading
    /\ CanIssue
    /\ pinLoading' = TRUE
    /\ reads' = reads + 1
    /\ dashTasks' = dashTasks \cup
            {DashTask("pinRefresh", "get", reads + 1, ForcedRefresh("pinRefresh"), "", NoCertificate,
                      TRUE)}
    /\ UNCHANGED <<showPinModal, selectedCertificate, pinInput, pinModalError>>
    /\ UNCHANGED <<timerVars, dashLoading, actionLoading, dashMessage, snapshotVars, configVars>>
    /\ UNCHANGED <<sessionVars, scheduleVars>>

RefreshPinDone(t, r) ==
    /\ t \in dashTasks
    /\ t.h = "pinRefresh"
    /\ dashTasks' = dashTasks \ {t}
    /\ IF t.live
       THEN /\ IF r.kind = "ok"
               THEN /\ certificatePinStatus' = t.seq
                    /\ dashMessage' = Notice("success", "PIN status refreshed successfully")
               ELSE /\ dashMessage' = Notice("error", OrElse(r.msg, "Failed to refresh PIN status"))
                    /\ UNCHANGED certificatePinStatus
            /\ pinLoading' = FALSE
       ELSE UNCHANGED <<certificatePinStatus, dashMessage, pinLoading>>
    /\ UNCHANGED <<dashboardData, certificateStatus, certificates>>
    /\ UNCHANGED <<showPinModal, selectedCertificate, pinInput, pinModalError>>
    /\ UNCHANGED <<timerVars, dashLoading, actionLoading, configVars, reads>>
    /\ UNCHANGED <<sessionVars, scheduleVars>>

(* ------------------------------------------- Dashboard: configuration modal *)
ConfigModalOpen == DashShown /\ showConfigModal /\ configData # NoData

\* the Edit Config button: fetchConfig up to its await
HandleEditConfig ==
    /\ DashShown
    /\ CanIssue
    /\ reads' = reads + 1
    /\ dashTasks' = dashTasks \cup
            {DashTask("config", "get", reads + 1, FALSE, "", NoCertificate, TRUE)}
    /\ UNCHANGED <<timerVars, dashLoading, actionLoading, dashMessage, snapshotVars,
                   configVars, pinVars>>
    /\ UNCHANGED <<sessionVars, scheduleVars>>

\* GET /get-current-config settled: the rest of fetchConfig and handleEditConfig
FetchConfigDone(t, r) ==
    /\ t \in dashTasks
    /\ t.h = "config"
    /\ dashTasks' = dashTasks \ {t}
    /\ IF t.live
       THEN /\ configData' = IF r.kind = "ok" THEN t.seq ELSE configData
            /\ showConfigModal' = TRUE
       ELSE UNCHANGED configVars
    /\ UNCHANGED <<timerVars, dashLoading, actionLoading, dashMessage, snapshotVars,
                   pinVars, reads>>
    /\ UNCHANGED <<sessionVars, scheduleVars>>

\* the modal's X and Close buttons
CloseConfigModal ==
    /\ ConfigModalOpen
    /\ showConfigModal' = FALSE
    /\ UNCHANGED configData
    /\ UNCHANGED <<timerVars, dashLoading, actionLoading, dashMessage, snapshotVars,
                   pinVars, dashTasks, reads>>
    /\ UNCHANGED <<sessionVars, scheduleVars>>

(* ---------------------------------------------------- Dashboard: teardown *)
\* the Dashboard's Logout button
DashboardLogout ==
    /\ DashShown
    /\ token' = NoToken
    /\ user' = NoUser
    /\ lsToken' = LogoutStoredToken(lsToken)
    /\ lsUser' = Absent
    /\ route' = "login"
    /\ tasks' = TasksAfterNav("login", tasks)
    /\ ResetLogin
    /\ ResetSetup
    /\ DashTeardown
    /\ UNCHANGED <<authLoading, bootPc, savedToken, savedUser, verifyCalls, navTimers>>
    /\ UNCHANGED scheduleVars

\* the modal's Edit Configuration button: close the modal, navigate('/setup')
EditConfiguration ==
    /\ ConfigModalOpen
    /\ route' = "setup"
    /\ tasks' = TasksAfterNav("setup", tasks)
    /\ DashTeardown
    /\ UNCHANGED <<storageVars, authVars, loginVars, setupVars, navTimers, scheduleVars>>

(* ------------------------------------------- Setup: the schedule payload *)
\* a session restored from storage, at rest on the screen of route r
SessionAt(r) ==
    /\ lsToken = 1 /\ lsUser = JSONstringify(1)
    /\ token = 1 /\ user = 1
    /\ authLoading = FALSE
    /\ bootPc = "done"
    /\ savedToken = 1 /\ savedUser = JSONstringify(1)
    /\ verifyCalls = 1
    /\ route = r
    /\ loginError = "" /\ loginLoading = FALSE
    /\ connectionTested = FALSE /\ testLoading = FALSE /\ saveLoading = FALSE
    /\ message = NoMessage
    /\ tasks = NoTasks
    /\ navTimers = 0

SetStartTime(v) ==
    /\ Screen(authLoading, route, token) = "setup"
    /\ startTime' = v
    /\ UNCHANGED <<endTime, schedulePayload, formVars>>
    /\ UNCHANGED <<sessionVars, dashVars>>

SetEndTime(v) ==
    /\ Screen(authLoading, route, token) = "setup"
    /\ endTime' = v
    /\ UNCHANGED <<startTime, schedulePayload, formVars>>
    /\ UNCHANGED <<sessionVars, dashVars>>

\* the body of the POST /save-email-config request of handleSaveConfig
SendSchedule ==
    /\ Screen(authLoading, route, token) = "setup"
    /\ schedulePayload' = [sent |-> TRUE,
                           start_time |-> formatTime(startTime),
                           end_time |-> formatTime(endTime)]
    /\ UNCHANGED <<startTime, endTime, formVars>>
    /\ UNCHANGED <<sessionVars, dashVars>>

(* ------------------------------------------------ Setup: the form fields *)
\* what an onChange handler of a field does to the tested flag: nothing
TestedAfterEdit_Invalidated(ct) == FALSE
TestedAfterEdit(ct) == ct

\* onChange of a database field: setServer, setPort, setDbUser, ...
SetDbField(f, v) ==
    /\ Screen(authLoading, route, token) = "setup"
    /\ dbConfig' = [dbConfig EXCEPT ![f] = v]
    /\ connectionTested' = TestedAfterEdit(connectionTested)
    /\ UNCHANGED <<testLoading, saveLoading, message>>
    /\ UNCHANGED <<storageVars, authVars, route, loginVars, tasks, navTimers>>
    /\ UNCHANGED <<startTime, endTime, schedulePayload, testBody, saveBody, dashVars>>

\* onChange of a schedule field: setStartTime, setEndTime
SetScheduleField(f, v) ==
    /\ Screen(authLoading, route, token) = "setup"
    /\ IF f = "startTime" THEN startTime' = v /\ UNCHANGED endTime
       ELSE endTime' = v /\ UNCHANGED startTime
    /\ connectionTested' = TestedAfterEdit(connectionTested)
    /\ UNCHANGED <<testLoading, saveLoading, message>>
    /\ UNCHANGED <<storageVars, authVars, route, loginVars, tasks, navTimers>>
    /\ UNCHANGED <<schedulePayload, formVars, dashVars>>

\* handleTestConnection with the body of its request
TestConnectionRequest ==
    /\ TestClick
    /\ testBody' = dbConfig
    /\ UNCHANGED <<startTime, endTime, schedulePayload, dbConfig, saveBody>>

\* handleSaveConfig with the body of its save-database request
SaveDatabaseRequest ==
    /\ SaveClick
    /\ saveBody' = dbConfig
    /\ UNCHANGED <<startTime, endTime, schedulePayload, dbConfig, testBody>>

ScheduleInit0 == SessionAt("setup") /\ ScheduleInit /\ DashIdle
ScheduleNext ==
    \/ \E v \in TimeInputs : SetStartTime(v)
    \/ \E v \in TimeInputs : SetEndTime(v)
    \/ SendSchedule
ScheduleSpec == ScheduleInit0 /\ [][ScheduleNext]_vars

\* the edits type a new value into a field; the backend messages are left out
Quiet(R) == {r \in R : r.msg = ""}
FormNext ==
    \/ \E f \in DbFields : SetDbField(f, "edited")
    \/ SetScheduleField("startTime", HHMM(0, 59))
    \/ SetScheduleField("endTime", HHMM(22, 59))
    \/ TestConnectionRequest
    \/ \E t \in TaskKinds, r \in Quiet(TestResponses) : TestConnectionDone(t, r)
    \/ SaveDatabaseRequest
    \/ \E t \in TaskKinds, r \in Quiet(WriteResponses) : SaveDatabaseDone(t, r)
    \/ \E t \in TaskKinds, r \in Quiet(WriteResponses) : SaveEmailDone(t, r)
FormSpec == ScheduleInit0 /\ [][FormNext]_vars

(* --------------------------------------------------------- specification *)
Next ==
    \/ VerifyStoredToken
    \/ \E r \in VerifyResponses : VerifyTokenDone(r)
    \/ \E url \in Routes : Restart(url)
    \/ RedirectToLogin
    \/ Logout
    \/ HandleSubmit
    \/ \E t \in TaskKinds, r \in AuthResponses : LoginAuthDone(t, r)
    \/ \E t \in TaskKinds, r \in ConfigResponses : LoginConfigDone(t, r)
    \/ HandleTestConnection
    \/ \E t \in TaskKinds, r \in TestResponses : TestConnectionDone(t, r)
    \/ HandleSaveConfig
    \/ \E t \in TaskKinds, r \in WriteResponses : SaveDatabaseDone(t, r)
    \/ \E t \in TaskKinds, r \in WriteResponses : SaveEmailDone(t, r)
    \/ NavTimerFires

Spec == Init /\ [][Next]_vars

TypeOK ==
    /\ lsToken \in {NoToken} \cup Tokens
    /\ token \in {NoToken} \cup Tokens
    /\ user \in {NoUser} \cup Users
    /\ authLoading \in BOOLEAN
    /\ bootPc \in {"start", "verifying", "done"}
    /\ route \in Routes
    /\ navTimers \in 0..MaxTimers
    /\ \A k \in TaskKinds : tasks[k] \in 0..MaxInFlight

DashInit == SessionAt("dashboard") /\ ScheduleInit /\ DashIdle
DashNext ==
    \/ DashboardMount
    \/ PollTick
    \/ \E t \in dashTasks, r \in BatchResponses : FetchDataDone(t, r)
    \/ \E action \in ServiceActions : HandleServiceControl(action)
    \/ \E t \in dashTasks, r \in ServiceResponses : ServiceControlDone(t, r)
    \/ \E t \in dashTasks, r \in BatchResponses : ServiceRefetchDone(t, r)
    \/ \E cert \in Certificates : HandleOpenPinModal(cert)
    \/ \E v \in {NoPin, PinText} : SetPinInput(v)
    \/ ClosePinModal
    \/ HandleSavePin
    \/ \E t \in dashTasks, r \in StorePinResponses : StorePinDone(t, r)
    \/ \E t \in dashTasks, r \in ReadResponses : SavePinRefreshDone(t, r)
    \/ HandleRefreshPinStatus
    \/ \E t \in dashTasks, r \in ReadResponses : RefreshPinDone(t, r)
    \/ HandleEditConfig
    \/ \E t \in dashTasks, r \in ReadResponses : FetchConfigDone(t, r)
    \/ CloseConfigModal
    \/ EditConfiguration
    \/ DashboardLogout
DashSpec == DashInit /\ [][DashNext]_vars

(* the whole console after the bootstrap: the three screens and the        *)
(* navigation between them                                                 *)
AppNext ==
    \/ DashNext
    \/ route = "setup" /\ Logout
    \/ RedirectToLogin
    \/ HandleSubmit
    \/ \E t \in TaskKinds, r \in AuthResponses : LoginAuthDone(t, r)
    \/ \E t \in TaskKinds, r \in ConfigResponses : LoginConfigDone(t, r)
    \/ HandleTestConnection
    \/ \E t \in TaskKinds, r \in TestResponses : TestConnectionDone(t, r)
    \/ HandleSaveConfig
    \/ \E t \in TaskKinds, r \in WriteResponses : SaveDatabaseDone(t, r)
    \/ \E t \in TaskKinds, r \in WriteResponses : SaveEmailDone(t, r)
    \/ NavTimerFires
AppSpec == DashInit /\ [][AppNext]_vars

DashTypeOK ==
    /\ dashMounted \in BOOLEAN
    /\ timersSet \in 0..MaxReads
    /\ timersCleared \in 0..timersSet
    /\ reads \in 0..MaxReads
    /\ dashboardData.seq \in 0..MaxReads
    /\ certificatePinStatus \in 0..MaxReads
    /\ selectedCertificate \in {NoCertificate} \cup Certificates
    /\ \A t \in dashTasks : t.seq \in 0..reads

(* ================================================================ claims *)
LiveDb == Task("save", "db", TRUE)
LiveEmail == Task("save", "email", TRUE)
SaveTasks == {k \in TaskKinds : k.h = "save"}
LoginTasks == {k \in TaskKinds : k.h = "login"}
\* save-email-config calls outstanding, whoever waits for them
EmailWrites(T) == T[Task("save", "email", TRUE)] + T[Task("save", "email", FALSE)]

\* C1: at startup with a token and a user record persisted, a successful
\* verification restores exactly the persisted token and user (the user in
\* memory is the one whose JSON text is persisted, and storage is kept); a
\* failed or throwing verification leaves token and user null and removes both
\* persisted keys.
C1_BootstrapOutcome ==
    [][\A r \in VerifyResponses :
            VerifyTokenDone(r) =>
                IF r.kind = "ok"
                THEN /\ token' = savedToken
                     /\ user' # NoUser
                     /\ JSONstringify(user') = savedUser
                     /\ lsToken' = savedToken
                     /\ lsUser' = savedUser
                ELSE /\ token' = NoToken
                     /\ user' = NoUser
                     /\ lsToken' = NoToken
                     /\ lsUser' = Absent]_vars

\* C2: when the persisted pair is absent at startup, the bootstrap issues no
\* verification call (none in the whole process), leaves the session empty and
\* ends the loading state in the same step.
C2_AfterBootNoPair ==
    (bootPc # "start" /\ (savedToken = NoToken \/ savedUser = Absent)) =>
        (verifyCalls = 0 /\ bootPc = "done" /\ ~authLoading)
C2_NoPairNoVerification ==
    /\ []C2_AfterBootNoPair
    /\ [][(bootPc = "start" /\ bootPc' # "start" /\ (lsToken = NoToken \/ lsUser = Absent)) =>
            (verifyCalls' = 0 /\ token' = NoToken /\ user' = NoUser /\ ~authLoading')]_vars
C2_Witness ==
    bootPc = "done" /\ savedToken = NoToken /\ ~authLoading /\ verifyCalls = 0
        /\ token = NoToken /\ route = "login"

\* C3: in every reachable state the in-memory token is non-null exactly when
\* the in-memory user is non-null.
C3_TokenIffUser == (token # NoToken) <=> (user # NoUser)

\* C4: until the bootstrap has resolved the loading state is on, nothing of the
\* application has run (no handler is suspended, no timer is pending, the
\* session is empty) and no login, logout, test or save is invoked; and the
\* step that settles the verification call ends the loading state.
C4_Gate ==
    bootPc # "done" =>
        (authLoading /\ tasks = NoTasks /\ navTimers = 0 /\ token = NoToken /\ user = NoUser)
C4_LoadingGate ==
    /\ []C4_Gate
    /\ [][bootPc # "done" =>
            ~(HandleSubmit \/ Logout \/ HandleTestConnection \/ HandleSaveConfig)]_vars
    /\ [][(bootPc = "verifying" /\ bootPc' # "verifying") =>
            (bootPc' = "start" \/ (bootPc' = "done" /\ ~authLoading'))]_vars
C4_Witness == bootPc = "verifying" /\ authLoading /\ verifyCalls = 1

\* C5: a process that found a persisted pair has issued exactly one
\* verification call, and no process ever issues more than one, whatever
\* logins, logouts and navigations follow.
C5_OneVerification ==
    /\ verifyCalls <= 1
    /\ (bootPc # "start" /\ savedToken # NoToken /\ savedUser # Absent) => verifyCalls = 1
C5_Witness ==
    verifyCalls = 1 /\ bootPc = "done" /\ token # NoToken /\ lsToken # savedToken
        /\ route = "dashboard"

\* C6: when the configuration check of a login answers, the location becomes
\* the dashboard if configuration exists and setup if it does not; when the
\* authenticate call fails (unsuccessful response or rejection) the location
\* and the session are unchanged and the login form shows the backend message
\* when there is one, a non-empty fallback otherwise, with the submit control
\* enabled again.
C6_LoginOutcome ==
    [][\A t \in LoginTasks :
        /\ \A r \in ConfigResponses :
                (r.kind = "ok" /\ LoginConfigDone(t, r)) =>
                    route' = (IF r.exists THEN "dashboard" ELSE "setup")
        /\ \A r \in AuthResponses :
                (r.kind # "ok" /\ LoginAuthDone(t, r)) =>
                    /\ route' = route
                    /\ token' = token /\ lsToken' = lsToken
                    /\ t.live =>
                        /\ loginError' # ""
                        /\ r.msg # "" => loginError' = r.msg
                        /\ ~loginLoading']_vars
C6_Witness ==
    bootPc = "done" /\ savedToken = NoToken /\ token # NoToken /\ route = "setup"
        /\ tasks = NoTasks

\* C7: a logout step leaves token and user null and both persisted keys
\* removed, so isAuthenticated is false; afterwards the token in memory becomes
\* non-null only by a successful authenticate response or by a bootstrap that
\* found a persisted token, and a token is persisted only by a successful
\* authenticate response.
C7_Logout ==
    /\ [][Logout =>
            (token' = NoToken /\ user' = NoUser /\ lsToken' = NoToken /\ lsUser' = Absent
                /\ ~IsAuthenticated(token'))]_vars
    /\ [][(token = NoToken /\ token' # NoToken) =>
            \/ \E t \in LoginTasks, r \in AuthResponses : r.kind = "ok" /\ LoginAuthDone(t, r)
            \/ bootPc = "verifying" /\ lsToken # NoToken /\ token' = lsToken]_vars
    /\ [][(lsToken = NoToken /\ lsToken' # NoToken) =>
            \E t \in LoginTasks, r \in AuthResponses : r.kind = "ok" /\ LoginAuthDone(t, r)]_vars
C7_Witness ==
    /\ tasks[Task("test", "call", FALSE)] > 0
    /\ token = NoToken /\ user = NoUser /\ lsToken = NoToken /\ lsUser = Absent
    /\ route = "login"

\* C8: a configuration write (save-config or save-email-config) is issued by
\* the mounted Setup screen only in a state where its tested flag is true.
C8_WritesOnlyWhenTested ==
    [][(tasks'[LiveDb] > tasks[LiveDb] \/ tasks'[LiveEmail] > tasks[LiveEmail]) =>
            connectionTested]_vars

\* C9: within one save the schedule write is issued only by the step in which
\* the database write completed, and a database write that failed (a rejected
\* call or a response reporting failure) is never followed by the schedule
\* write.
C9_DbBeforeEmail ==
    [][/\ EmailWrites(tasks') > EmailWrites(tasks) =>
            \E t \in SaveTasks, r \in WriteResponses : SaveDatabaseDone(t, r)
       /\ \A t \in SaveTasks, r \in WriteResponses :
            (r.kind # "ok" /\ SaveDatabaseDone(t, r)) =>
                EmailWrites(tasks') <= EmailWrites(tasks)]_vars

\* C10: when either write of a save fails (a rejected call or a response
\* reporting failure) the mounted Setup screen shows an error notice and no
\* navigation is scheduled; the navigation is scheduled only by a schedule
\* write that succeeded, with a success notice.
C10_SaveFailureSurfaced ==
    [][\A t \in SaveTasks, r \in WriteResponses :
        /\ (r.kind # "ok" /\ (SaveDatabaseDone(t, r) \/ SaveEmailDone(t, r))) =>
                /\ navTimers' = navTimers
                /\ t.live => message'.type = "error"
        /\ (r.kind = "ok" /\ SaveEmailDone(t, r)) =>
                /\ navTimers' = navTimers + 1
                /\ t.live => message'.type = "success"]_vars

\* C11: whenever the schedule payload is sent from fields in the HH:MM form,
\* its start_time and end_time are the same four digits with the colon
\* removed and nothing else changed
IsDigit(c) == \E i \in 1..Len(DigitChar) : DigitChar[i] = c
IsHHMM(s) ==
    /\ Len(s) = 5
    /\ s[3] = ":"
    /\ \A i \in {1, 2, 4, 5} : IsDigit(s[i])
Compact(s) == <<s[1], s[2], s[4], s[5]>>
C11_CompactTimes ==
    [][SendSchedule =>
        /\ IsHHMM(startTime) => schedulePayload'.start_time = Compact(startTime)
        /\ IsHHMM(endTime) => schedulePayload'.end_time = Compact(endTime)]_vars
C11_Witness ==
    /\ startTime = HHMM(6, 0)
    /\ endTime = HHMM(22, 0)
    /\ schedulePayload = [sent |-> TRUE, start_time |-> <<"0", "6", "0", "0">>,
                                        end_time |-> <<"2", "2", "0", "0">>]

\* C12: a batch is all-or-nothing.  When every read of a batch resolved, the
\* four snapshots are replaced together by that batch's results; when one
\* read rejected, none of the four changes, an error notice is set and the
\* loading state ends.  The three snapshots only a batch writes always come
\* from the same batch.
BatchSettles(t, r) == FetchDataDone(t, r) \/ ServiceRefetchDone(t, r)
FromBatch(n) ==
    /\ dashboardData.seq = n
    /\ certificateStatus = n
    /\ certificates = n
C12_AllOrNothing ==
    [][/\ \A t \in dashTasks :
            (t.live /\ t.pc = "batch" /\ t \notin dashTasks') =>
              \A r \in BatchResponses :
                BatchSettles(t, r) =>
                IF r.failed = "none"
                THEN FromBatch(t.seq)' /\ certificatePinStatus' = t.seq
                ELSE /\ snapshotVars' = snapshotVars
                     /\ dashMessage'.type = "error"
                     /\ ~dashLoading'
       /\ FromBatch(certificates)']_vars
C12_Witness ==
    /\ dashMounted
    /\ FromBatch(1)
    /\ certificatePinStatus = 1
    /\ reads > 1
    /\ dashMessage = Notice("error", "Failed to fetch dashboard data")
    /\ Batches(dashTasks) = {}

\* C13: every tick of the timer issues a new batch while the Dashboard is
\* mounted, and once the Dashboard has been unmounted no step issues a batch
TornDown == ~dashMounted /\ timersCleared > 0
C13_NoBatchAfterUnmount ==
    [][/\ PollTick => dashMounted /\ Batches(dashTasks') # Batches(dashTasks)
       /\ TornDown => Batches(dashTasks') \subseteq Batches(dashTasks)]_vars

\* C14: every service-control call that settles, successfully or not, is
\* followed at once by a new batch
C14_RefetchOnCompletion ==
    [][\A t \in dashTasks, r \in ServiceResponses :
        ServiceControlDone(t, r) => Batches(dashTasks') # Batches(dashTasks)]_vars

\* C18: the interval timer is created once per mount and cleared exactly once
\* at teardown: one timer runs while mounted, none afterwards, clearInterval
\* is never called more often than setInterval, and no tick fires after teardown
TimerBalanced ==
    /\ timersCleared <= timersSet
    /\ timersSet - timersCleared = IF dashMounted THEN 1 ELSE 0
C18_TimerClearedOnce ==
    [][/\ TimerBalanced'
       /\ PollTick => dashMounted
       /\ (dashMounted /\ ~dashMounted') => timersCleared' = timersCleared + 1
       /\ (~dashMounted /\ dashMounted') => timersSet' = timersSet + 1]_vars
C18_Witness ==
    /\ TornDown
    /\ \E t \in dashTasks : t.h = "fetchData" /\ ~t.live /\ t.seq > 1

\* C19: at most one four-way batch is in flight at any time
C19_OneBatchInFlight == Cardinality(Batches(dashTasks)) <= 1

\* C15: the outcome of a PIN save depends only on the first entry, not on
\* the shape of the response: {success:true} and [{success:true}] both end
\* in success (success notice, modal closed), {success:false, error:"bad pin"}
\* and [{success:false, error:"bad pin"}] both show "bad pin" in the modal
JustBadPin(e) == e.present /\ ~e.success /\ e.error = BadPin /\ e.message = ""
C15_ShapeIndependent ==
    [][\A t \in dashTasks, r \in StorePinResponses :
        (t.live /\ r.shape \in {"object", "array"} /\ StorePinDone(t, r)) =>
            /\ (r.entry.present /\ r.entry.success) =>
                    dashMessage'.type = "success" /\ ~showPinModal'
            /\ JustBadPin(r.entry) => pinModalError' = BadPin /\ showPinModal' = showPinModal]_vars

\* C16: after a PIN save that failed for its entry the modal, the selected
\* certificate and the entered PIN are as they were and the entry's error is
\* shown in the modal; after one that succeeded the modal is closed, the PIN
\* input is empty and a PIN-status read with refresh=true has been issued in
\* the same step, whose result replaces the displayed PIN status.  The read
\* of a polling batch carries refresh=false.
EntryFailed(r) ==
    \/ r.shape = "array" /\ r.entry.present /\ ~r.entry.success
    \/ r.shape = "object" /\ ~r.entry.success
EntrySucceeded(r) == r.shape \in {"object", "array"} /\ r.entry.present /\ r.entry.success
C20_LateResponsesIgnored ==
    [][\A t \in dashTasks :
        (~t.live /\ t \notin dashTasks') =>
            /\ dashTasks' = dashTasks \ {t}
            /\ reads' = reads
            /\ UNCHANGED <<dashLoading, actionLoading, dashMessage, snapshotVars, configVars,
                           pinVars>>]_vars

\* C17: a failure never blocks retry.  Whenever a call of login submit,
\* connection test, setup save, service control, PIN save or PIN refresh
\* settles with a failure, the handler shows an error notice, resets its
\* in-flight flag and leaves every other condition of its control as it was
PinSaveFailed(r) == EntryFailed(r) \/ r.shape = "throw"
C17_FailuresNeverBlockRetry ==
    [][/\ \A t \in TaskKinds :
            (t.live /\ tasks[t] > 0) =>
                /\ \A r \in AuthResponses :
                        (r.kind # "ok" /\ LoginAuthDone(t, r)) =>
                            loginError' # "" /\ ~loginLoading'
                /\ \A r \in ConfigResponses :
                        (r.kind # "ok" /\ LoginConfigDone(t, r)) =>
                            loginError' # "" /\ ~loginLoading'
                /\ \A r \in TestResponses :
                        (r.kind # "ok" /\ TestConnectionDone(t, r)) =>
                            message'.type = "error" /\ ~testLoading'
                /\ \A r \in WriteResponses :
                        (r.kind # "ok" /\ (SaveDatabaseDone(t, r) \/ SaveEmailDone(t, r))) =>
                            /\ message'.type = "error"
                            /\ ~saveLoading'
                            /\ connectionTested' = connectionTested
       /\ \A t \in dashTasks :
            (t.live /\ t \notin dashTasks') =>
                /\ \A r \in ServiceResponses :
                        (r.kind # "ok" /\ ServiceControlDone(t, r)) =>
                            /\ dashMessage'.type = "error"
                            /\ ~actionLoading'
                            /\ dashboardData' = dashboardData
                /\ \A r \in StorePinResponses :
                        (PinSaveFailed(r) /\ StorePinDone(t, r)) =>
                            /\ pinModalError' # NoError
                            /\ ~pinLoading'
                            /\ UNCHANGED <<showPinModal, selectedCertificate, pinInput>>
                /\ \A r \in ReadResponses :
                        (r.kind # "ok" /\ RefreshPinDone(t, r)) =>
                            dashMessage'.type = "error" /\ ~pinLoading']_vars

(* C21: editing a database field or a schedule field of the Setup form      *)
(* leaves the tested flag as it is, so Save stays enabled after a           *)
(* successful test, and a save sends the field values of the moment it is   *)
(* clicked, whether or not those are the values the test was run with.      *)
FieldEdited == dbConfig' # dbConfig \/ startTime' # startTime \/ endTime' # endTime
SaveStarted == ~saveLoading /\ saveLoading'
C21_EditsKeepTested ==
    [][/\ FieldEdited => /\ connectionTested' = connectionTested
                         /\ SaveEnabled' = SaveEnabled
       /\ SaveStarted => saveBody' = dbConfig]_vars
\* a save is under way whose body differs from the body of the last test,
\* which has succeeded
C21_Witness ==
    /\ connectionTested /\ ~testLoading /\ InFlight(tasks, "test") = 0
    /\ saveLoading /\ InFlight(tasks, "save") = 1
    /\ testBody # NoBody /\ saveBody # NoBody
    /\ saveBody # testBody
    /\ saveBody = dbConfig

(* C22: each guarded action has at most one call in flight: one login      *)
(* submit, one service-control action (its follow-up batch included), one   *)
(* setup save, and one of Save PIN / Refresh PIN Status, which share the    *)
(* pinLoading flag.                                                         *)
Outstanding(H) == {t \in dashTasks : t.h \in H}
AuthCalls == tasks[Task("login", "auth", TRUE)] + tasks[Task("login", "auth", FALSE)]
\* the control that starts the action can be used
CanSubmit == Screen(authLoading, route, token) = "login" /\ ~loginLoading
CanSave == Screen(authLoading, route, token) = "setup" /\ SaveEnabled
CanControl == DashShown /\ \E action \in ServiceActions : ControlEnabled(action)
CanRefreshPin == DashShown /\ ~pinLoading
CanSavePin == PinModalOpen /\ SavePinEnabled
C22_OneCallPerAction ==
    /\ AuthCalls <= 1
    /\ InFlight(tasks, "save") <= 1
    /\ Cardinality(Outstanding({"service"})) <= 1
    /\ Cardinality(Outstanding({"pinSave", "pinRefresh"})) <= 1
    /\ AuthCalls > 0 => ~CanSubmit
    /\ InFlight(tasks, "save") > 0 => ~CanSave
    /\ Outstanding({"service"}) # {} => ~CanControl
    /\ Outstanding({"pinSave", "pinRefresh"}) # {} => ~CanRefreshPin /\ ~CanSavePin

(* C23: a login attempt that ends with an error on the login form and no    *)
(* navigation leaves no session: token and user are null in memory and      *)
(* neither is persisted, also when it is the configuration check after a    *)
(* successful authentication that failed.                                   *)
LoginEndsInError ==
    /\ loginLoading /\ ~loginLoading'
    /\ loginError' # ""
    /\ route' = route
SessionEmpty == token = NoToken /\ user = NoUser /\ lsToken = NoToken /\ lsUser = Absent
C23_FailedLoginLeavesNoSession == [][LoginEndsInError => SessionEmpty']_vars

(* C24: once the bootstrap has resolved, the session in memory and its      *)
(* mirror in localStorage agree: a token is held in memory exactly when one *)
(* is persisted, and the two are the same token, so the interceptor sends   *)
(* the token of the session in memory.                                      *)
C24_MirrorAgrees ==
    bootPc = "done" =>
        /\ (token # NoToken) = (lsToken # NoToken)
        /\ token # NoToken => lsToken = token

(* C25: the data the Dashboard displays never goes backwards: while the     *)
(* view is mounted, a response never replaces a snapshot by one from a      *)
(* read that was issued earlier, so after overlapping batches have settled  *)
(* the view shows the most recently issued successful read.                 *)
C25_NeverBackwards ==
    [][dashMounted' =>
          /\ dashboardData'.seq >= dashboardData.seq
          /\ certificateStatus' >= certificateStatus
          /\ certificates' >= certificates
          /\ certificatePinStatus' >= certificatePinStatus]_vars

(* C26: the outcome of a PIN save touches only the modal of the certificate *)
(* it was submitted for: when its response arrives while the modal is       *)
(* closed or open for another certificate, the modal, its certificate and   *)
(* its error stay as they are; and an error is recorded only while a modal  *)
(* is open.                                                                 *)
StoreSettles(t) == t.h = "pinSave" /\ t.pc = "store" /\ t.live /\ t \notin dashTasks'
ModalOf(cert) == showPinModal /\ selectedCertificate = cert
C26_OutcomeScopedToCertificate ==
    [][/\ \A t \in dashTasks :
            StoreSettles(t) /\ dashMounted' /\ ~ModalOf(t.cert) =>
                UNCHANGED <<showPinModal, selectedCertificate, pinModalError>>
       /\ pinModalError' # NoError => showPinModal']_vars

(* C27: a PIN save whose call settles, its modal still open for its         *)
(* certificate, ends in one of two visible outcomes: the success notice is  *)
(* set and the modal closed, or a non-empty error is shown in the modal,    *)
(* which stays open; no response ends it with neither.                      *)
SavedVisibly == dashMessage.type = "success" /\ ~showPinModal
FailedVisibly == showPinModal /\ pinModalError # NoError
C27_SaveEndsInOutcome ==
    [][\A t \in dashTasks :
          StoreSettles(t) /\ dashMounted' /\ ModalOf(t.cert) =>
              SavedVisibly' \/ FailedVisibly']_vars

(* C28: the configuration modal shows only the configuration that the      *)
(* fetch of the edit action opening it returned: when an edit action's      *)
(* fetch settles and the modal is on display, it displays the result of     *)
(* that fetch; and that fetch never starts together with a polling batch.   *)
ConfigSettles(t) == t.h = "config" /\ t.live /\ t \notin dashTasks'
Started == {t \in dashTasks' \ dashTasks : t.live}
C28_ModalShowsFetched ==
    [][/\ \A t \in dashTasks :
            ConfigSettles(t) /\ dashMounted' /\ ConfigModalOpen' => configData' = t.seq
       /\ (\E t \in Started : t.h = "config") => ~(\E t \in Started : t.pc = "batch")]_vars

(* C29: the delayed navigation that a successful Setup save schedules takes *)
(* effect only while the Setup screen is still shown to an authenticated    *)
(* user: after a logout, or once Setup has been left, no timer of a save    *)
(* navigates to the dashboard.                                              *)
TimerNavigates == navTimers' < navTimers /\ bootPc' = bootPc /\ route' = "dashboard"
C29_NavOnlyFromSetup ==
    [][TimerNavigates => Screen(authLoading, route, token) = "setup"]_vars

(* C30: on the Setup screen a save and a connection test never overlap:     *)
(* while a test is in flight no save is, and the other way round, so the    *)
(* tested flag is set for as long as the writes of a save are outstanding.  *)
LiveTest == Task("test", "call", TRUE)
SaveUnderWay == tasks[LiveDb] + tasks[LiveEmail] > 0
C30_SaveAndTestExclusive ==
    /\ ~(tasks[LiveTest] > 0 /\ SaveUnderWay)
    /\ SaveUnderWay => connectionTested

====
